---- MODULE Spec2Model ----
(***************************************************************************)
(* A model of PiBus (src/bus.py): the fetch task updateBusInfo, the render *)
(* task renderBusInfo with its helper getTimes, and the two interval jobs  *)
(* that PiBus.__init__ registers on the scheduler.                         *)
(*                                                                         *)
(* Python strings that the program compares or sorts are modelled as       *)
(* sequences of character codes, so that list.sort() on strings is the     *)
(* lexicographic order Python uses and "%02d" is a real formatting step.   *)
(***************************************************************************)
EXTENDS Integers, Sequences, FiniteSets, TLC

VARIABLES
    options,          \* self.options: [busStopID, busLine]
    process,          \* "running", or "exit1" after sys.exit(1) in __init__
    panel,            \* self.panel: "EPD" or "None"
    jobs,             \* the jobs registered on the scheduler
    instances,        \* running instances of each job (the executor's count)
    skips,            \* the jobs whose running execution has had a tick skipped
    lastOutcome,      \* per job, its latest finished execution: "never", "ok" (returned) or "error" (raised)
    fetched,          \* the latest answer to a fetch: "none", "failure" or "success"
    clock,            \* wall-clock time in seconds
    currentJSON,      \* self.currentJSON: None or a list of records
    lastFetchTime,    \* self.lastFetchTime: None, -1 or the time of a fetch
    partialCount,     \* self.partialCount
    renderSuspended,  \* self.renderSuspended
    upc,              \* position of the updateBusInfo execution
    rawJSON,          \* updateBusInfo's local rawJSON
    uIdx,             \* updateBusInfo's loop position in rawJSON
    rpc,              \* position of the renderBusInfo execution
    seen,             \* what getTimes' test at line 142 observed
    now,              \* getTimes' local now
    iterList,         \* the list object the loop at line 148 iterates
    iterAlias,        \* whether that list object is still self.currentJSON
    rIdx,             \* the list iterator's index
    times,            \* getTimes' local times, then renderBusInfo's times
    panelCalls,       \* calls made on the panel by the latest render execution
    curResult,        \* what getTimes gave the latest finished render execution
    runLog,           \* refresh kinds of the consecutive data renders since partialCount was 0
    firstCall,        \* the result and the now of an earlier call of getTimes on this snapshot
    stampCurrent,     \* lastFetchTime was written by the execution that installed self.currentJSON
    readCurrent,      \* the list object read at line 148 is still self.currentJSON
    stampOfRead       \* lastFetchTime was written by the execution that installed the list read at line 148

vars == <<options, process, panel, jobs, instances, skips, lastOutcome, fetched, clock,
          currentJSON, lastFetchTime, partialCount, renderSuspended,
          upc, rawJSON, uIdx, rpc, seen, now, iterList, iterAlias, rIdx, times,
          panelCalls, curResult, runLog, firstCall,
          stampCurrent, readCurrent, stampOfRead>>

-----------------------------------------------------------------------------
(* Bounds of the model *)

\* consecutive data renders followed by the refresh log
MaxRun == 22

\* records in a snapshot given to getTimes on its own
MaxRecords == 4

-----------------------------------------------------------------------------
(* Python values *)

None == [tag |-> "None"]

Str(s) == [tag |-> "str", s |-> s]

IntVal(n) == [tag |-> "int", v |-> n]

List(items) == [tag |-> "list", items |-> items]

\* a JSON object (the body of an error response): a non-empty dict
Dict == [tag |-> "dict"]

IsNone(v) == v.tag = "None"

\* Python truthiness of None, a list or a dict: "not v"
Falsy(v) ==
    \/ IsNone(v)
    \/ (v.tag = "list" /\ v.items = << >>)
    \/ (v.tag = "str" /\ v.s = "")

\* character codes
Dash == 45

Zero == 48

Max(a, b) == IF a >= b THEN a ELSE b

\* decimal digits of n >= 0, most significant first
RECURSIVE Digits(_)
Digits(n) == IF n < 10 THEN <<Zero + n>> ELSE Append(Digits(n \div 10), Zero + (n % 10))

\* left-pad s with "0" to width w
RECURSIVE ZeroPad(_, _)
ZeroPad(s, w) == IF Len(s) >= w THEN s ELSE ZeroPad(<<Zero>> \o s, w)

\* "%02d" % n: the sign, then the digits zero-padded so that the whole is 2 wide
Format02d(n) ==
    IF n >= 0 THEN ZeroPad(Digits(n), 2)
    ELSE <<Dash>> \o ZeroPad(Digits(-n), 1)

\* Python's str < str: lexicographic on the character codes
RECURSIVE StrLess(_, _)
StrLess(a, b) ==
    IF b = << >> THEN FALSE
    ELSE IF a = << >> THEN TRUE
    ELSE IF Head(a) # Head(b) THEN Head(a) < Head(b)
    ELSE StrLess(Tail(a), Tail(b))

\* insert s into the sorted list l, after the entries equal to it
RECURSIVE Insert(_, _)
Insert(s, l) ==
    IF l = << >> THEN <<s>>
    ELSE IF StrLess(s, Head(l)) THEN <<s>> \o l
    ELSE <<Head(l)>> \o Insert(s, Tail(l))

\* list.sort() on a list of strings
RECURSIVE SortStrings(_)
SortStrings(l) ==
    IF l = << >> THEN << >> ELSE Insert(l[Len(l)], SortStrings(SubSeq(l, 1, Len(l) - 1)))

-----------------------------------------------------------------------------
(* The data the model draws its inputs from *)

\* the values datetime.now() and time.localtime() can return, in seconds
ClockValues == {0, 40}

\* expectedArrival of the records, in seconds on the same scale
ArrivalTimes == {30, 130, 1300, 6100}

\* the stop and the route given on the command line
StopID == Str("490008660N")

Route == Str("N38")

\* str.lower() on the line names that occur
Lower(s) == IF s = "N38" THEN "n38" ELSE s

Record(line, due) == [lineName |-> line, expectedArrival |-> due]

\* an arrival entry of the wrong shape: it has no lineName
BadItem == [expectedArrival |-> 30]

\* the bodies result.json() can return
Bodies ==
    { List(<< >>),
      List(<<Record("n38", 130), Record("73", 30), Record("N38", 30)>>),
      List(<<Record("N38", 1300)>>),
      List(<<Record("73", 30)>>),
      List(<<Record("N38", 30), BadItem>>),
      Dict }

\* sequences over S of length at most n
RECURSIVE SeqsUpTo(_, _)
SeqsUpTo(S, n) ==
    IF n = 0 THEN { << >> }
    ELSE LET shorter == SeqsUpTo(S, n - 1)
         IN  shorter \cup { Append(q, x) : q \in shorter, x \in S }

\* the snapshots updateBusInfo can leave: None, or a list of records of the route
Snapshots ==
    { None } \cup
    { List(q) : q \in SeqsUpTo({ Record("N38", d) : d \in ArrivalTimes }, MaxRecords) }

-----------------------------------------------------------------------------
(* getTimes, lines 140-163 *)

\* line 151: divmod(dueDiff.total_seconds(), 60)[0], the floor of the quotient
MinutesDue(due, t) == (due - t) \div 60

\* no clamping of a bus that is overdue
ClampNone(m) == m

\* line 152: max(minutesDue, 0)
Clamp(m) == Max(m, 0)

\* line 152: the string appended for one bus
DueString(bus, t) == Format02d(Clamp(MinutesDue(bus.expectedArrival, t)))

\* the placeholder "--"
Placeholder == <<Dash, Dash>>

\* lines 156-161: the three tests that append the placeholder
Pad(l) ==
    LET a == IF Len(l) = 0 THEN Append(l, Placeholder) ELSE l
        b == IF Len(a) = 1 THEN Append(a, Placeholder) ELSE a
    IN  IF Len(b) = 2 THEN Append(b, Placeholder) ELSE b

\* lines 154-163: sort, pad, return
Finish(l) == Pad(SortStrings(l))

-----------------------------------------------------------------------------
(* PiBus.__init__, lines 57-98 *)

UPDATE == "updateBusInfo"

RENDER == "renderBusInfo"

\* a scheduler that lets two executions of a job overlap
MaxInstancesTwo == 1 + 1

\* line 93 and line 98: max_instances of both jobs
MaxInstances == 1

\* line 220: the partial refreshes after which a full refresh is forced
FullRefreshEvery == 10

\* the command lines: each of the stop and the route given or not
OptionChoices ==
    { [busStopID |-> s, busLine |-> l] : s \in {None, StopID}, l \in {None, Route} }

\* a test at line 68 that looks at the stop only
MissingOptionStopOnly(o) == Falsy(o.busStopID)

\* line 68: the test that ends the process
MissingOption(o) == Falsy(o.busStopID) \/ Falsy(o.busLine)

\* the locals of the two tasks outside an execution
IdleLocals ==
    /\ upc = "idle" /\ rawJSON = None /\ uIdx = 0
    /\ rpc = "idle" /\ seen = "none" /\ now = 0
    /\ iterList = << >> /\ iterAlias = FALSE /\ rIdx = 0 /\ times = None

\* the state when __init__ has returned, or has ended the process at line 70
Init ==
    /\ options \in OptionChoices
    /\ clock = 0
    /\ currentJSON = None
    /\ lastFetchTime = None
    /\ skips = {}
    /\ lastOutcome = [j \in {UPDATE, RENDER} |-> "never"]
    /\ fetched = "none"
    /\ instances = [j \in {UPDATE, RENDER} |-> 0]
    /\ IdleLocals
    /\ panelCalls = << >> /\ curResult = "none" /\ runLog = << >>
    /\ firstCall = None
    /\ stampCurrent = TRUE /\ readCurrent = FALSE /\ stampOfRead = FALSE
    /\ IF MissingOption(options)
       THEN /\ process = "exit1"
            /\ panel = "None"
            /\ partialCount = None
            /\ renderSuspended = None
            /\ jobs = {}
       ELSE /\ process = "running"
            /\ panel \in {"EPD", "None"}
            /\ partialCount = 0
            /\ renderSuspended = FALSE
            /\ jobs = {UPDATE, RENDER}

-----------------------------------------------------------------------------
(* The scheduler: interval jobs with max_instances, lines 89-98 and 251-254 *)

schedVars == <<jobs, instances, skips, lastOutcome>>

piVars == <<options, process, panel>>

updateLocals == <<upc, rawJSON, uIdx>>

renderLocals == <<rpc, seen, now, iterList, iterAlias, rIdx, times>>

renderHistory == <<panelCalls, curResult, runLog>>

stampVars == <<stampCurrent, readCurrent, stampOfRead>>

\* whether the executor accepts another instance of job j
CanSubmit(j) == instances[j] < MaxInstances

\* the job's execution is handed to the executor
Submit(j) ==
    /\ instances' = [instances EXCEPT ![j] = @ + 1]
    /\ UNCHANGED <<jobs, skips, lastOutcome>>

\* a runner that stops scheduling a job whose execution raised
JobDoneUnschedule(j, outcome) ==
    /\ instances' = [instances EXCEPT ![j] = @ - 1]
    /\ lastOutcome' = [lastOutcome EXCEPT ![j] = outcome]
    /\ skips' = skips \ {j}
    /\ jobs' = IF outcome = "error" THEN jobs \ {j} ELSE jobs

\* an execution of job j ends, by returning ("ok") or by raising ("error"):
\* the executor releases the instance and the job stays scheduled
JobDone(j, outcome) ==
    /\ instances' = [instances EXCEPT ![j] = @ - 1]
    /\ lastOutcome' = [lastOutcome EXCEPT ![j] = outcome]
    /\ skips' = skips \ {j}
    /\ jobs' = jobs

\* a tick of the fetch job that starts an execution: session.get is in flight
TickUpdate ==
    /\ process = "running"
    /\ UPDATE \in jobs
    /\ CanSubmit(UPDATE)
    /\ Submit(UPDATE)
    /\ upc' = IF upc = "idle" THEN "L110" ELSE upc
    /\ UNCHANGED <<piVars, firstCall, stampVars, fetched, clock, currentJSON, lastFetchTime, partialCount,
                   renderSuspended, rawJSON, uIdx, renderLocals, renderHistory>>

\* a tick of the render job that starts an execution
TickRender ==
    /\ process = "running"
    /\ RENDER \in jobs
    /\ CanSubmit(RENDER)
    /\ Len(runLog) < MaxRun
    /\ Submit(RENDER)
    /\ rpc' = IF rpc = "idle" THEN "L168" ELSE rpc
    /\ panelCalls' = IF rpc = "idle" THEN << >> ELSE panelCalls
    /\ UNCHANGED <<piVars, firstCall, stampVars, fetched, clock, currentJSON, lastFetchTime, partialCount,
                   renderSuspended, updateLocals, seen, now, iterList, iterAlias,
                   rIdx, times, curResult, runLog>>

\* a tick of job j while max_instances executions of it are running: the
\* scheduler logs that the run is skipped and submits nothing
TickSkip(j) ==
    /\ process = "running"
    /\ j \in jobs
    /\ ~CanSubmit(j)
    /\ skips' = skips \cup {j}
    /\ UNCHANGED <<piVars, firstCall, stampVars, jobs, instances, lastOutcome, fetched, clock, currentJSON,
                   lastFetchTime, partialCount, renderSuspended, updateLocals,
                   renderLocals, renderHistory>>

\* time passes
ClockAdvance ==
    /\ process = "running"
    /\ \E t \in ClockValues : t > clock /\ clock' = t
    /\ UNCHANGED <<piVars, firstCall, stampVars, schedVars, fetched, currentJSON, lastFetchTime, partialCount,
                   renderSuspended, updateLocals, renderLocals, renderHistory>>

-----------------------------------------------------------------------------
(* updateBusInfo with fetchBusJSON, lines 105-138 *)

\* line 135: time.strftime("%H:%M:%S %d/%m/%Y", time.localtime())
TimeVal(t) == [tag |-> "time", v |-> t]

\* a comparison of an entry with the route that minds the case
MatchesExact(busItem, line) == busItem.lineName = line.s

\* lines 131-132: the case-insensitive comparison of an entry with the route
Matches(busItem, line) == Lower(busItem.lineName) = Lower(line.s)

\* a body of the shape the program expects: a list of arrival entries
WellShaped(body) ==
    /\ body.tag = "list"
    /\ \A i \in DOMAIN body.items : "lineName" \in DOMAIN body.items[i]

\* the execution of updateBusInfo ends
UpdateEnds(outcome) ==
    /\ upc' = "idle"
    /\ rawJSON' = None
    /\ uIdx' = 0
    /\ JobDone(UPDATE, outcome)

\* lines 110-113 and 124-125: session.get raises; fetchBusJSON logs and returns
\* None, so updateBusInfo takes the branch of line 124 and clears the snapshot
FetchTransportError ==
    /\ upc = "L110"
    /\ fetched' = "failure"
    /\ rawJSON' = None
    /\ currentJSON' = None
    /\ iterAlias' = FALSE
    /\ stampCurrent' = FALSE
    /\ readCurrent' = FALSE
    /\ UNCHANGED stampOfRead
    /\ upc' = "L126"
    /\ UNCHANGED <<piVars, firstCall, schedVars, clock, lastFetchTime, partialCount,
                   renderSuspended, uIdx, rpc, seen, now, iterList, rIdx, times,
                   renderHistory>>

\* line 115: the body is not JSON; result.json() raises outside the try block,
\* and the exception leaves fetchBusJSON and updateBusInfo
FetchUnparsable ==
    /\ upc = "L110"
    /\ fetched' = "failure"
    /\ UpdateEnds("error")
    /\ UNCHANGED <<piVars, firstCall, stampVars, clock, currentJSON, lastFetchTime, partialCount,
                   renderSuspended, renderLocals, renderHistory>>

\* lines 115-129: the body parses. An empty one takes the branch of line 124
\* and clears the snapshot (line 125); otherwise a new, empty list object
\* becomes the snapshot (line 129)
FetchBody(body) ==
    /\ upc = "L110"
    /\ fetched' = IF WellShaped(body) THEN "success" ELSE "failure"
    /\ rawJSON' = body
    /\ iterAlias' = FALSE
    /\ stampCurrent' = FALSE
    /\ readCurrent' = FALSE
    /\ UNCHANGED stampOfRead
    /\ IF Falsy(body)
       THEN /\ currentJSON' = None
            /\ upc' = "L126"
            /\ uIdx' = uIdx
       ELSE /\ currentJSON' = List(<< >>)
            /\ upc' = "L130"
            /\ uIdx' = 1
    /\ UNCHANGED <<piVars, firstCall, schedVars, clock, lastFetchTime, partialCount,
                   renderSuspended, rpc, seen, now, iterList, rIdx, times,
                   renderHistory>>

\* a failed fetch that also clears the render task's suspension flag
U126ClearsSuspended ==
    /\ upc = "L126"
    /\ lastFetchTime' = IntVal(-1)
    /\ renderSuspended' = FALSE
    /\ stampCurrent' = TRUE
    /\ stampOfRead' = readCurrent
    /\ UNCHANGED readCurrent
    /\ UpdateEnds("ok")
    /\ UNCHANGED <<piVars, firstCall, fetched, clock, currentJSON, partialCount,
                   renderLocals, renderHistory>>

\* lines 126-127
U126 ==
    /\ upc = "L126"
    /\ lastFetchTime' = IntVal(-1)
    /\ stampCurrent' = TRUE
    /\ stampOfRead' = readCurrent
    /\ UNCHANGED readCurrent
    /\ UpdateEnds("ok")
    /\ UNCHANGED <<piVars, firstCall, fetched, clock, currentJSON, partialCount, renderSuspended,
                   renderLocals, renderHistory>>

\* whether the next loop step raises: iterating a dict yields its keys, and
\* indexing a str with 'lineName' raises TypeError; an entry without lineName
\* raises KeyError
LoopRaises ==
    \/ rawJSON.tag = "dict"
    \/ /\ rawJSON.tag = "list"
       /\ uIdx <= Len(rawJSON.items)
       /\ "lineName" \notin DOMAIN rawJSON.items[uIdx]

\* lines 130-133: one entry of rawJSON; a match is appended to the list object
\* that is the snapshot, which a running getTimes may be iterating
U130Item ==
    /\ upc = "L130"
    /\ ~LoopRaises
    /\ uIdx <= Len(rawJSON.items)
    /\ LET busItem == rawJSON.items[uIdx]
       IN  IF Matches(busItem, options.busLine)
           THEN /\ currentJSON' = List(Append(currentJSON.items, busItem))
                /\ iterList' = IF iterAlias THEN Append(iterList, busItem) ELSE iterList
           ELSE UNCHANGED <<currentJSON, iterList>>
    /\ uIdx' = uIdx + 1
    /\ UNCHANGED <<piVars, firstCall, stampVars, schedVars, fetched, clock, lastFetchTime, partialCount,
                   renderSuspended, upc, rawJSON, rpc, seen, now, iterAlias, rIdx,
                   times, renderHistory>>

\* lines 130-131: the loop raises and the exception leaves updateBusInfo
U130Raise ==
    /\ upc = "L130"
    /\ LoopRaises
    /\ UpdateEnds("error")
    /\ UNCHANGED <<piVars, firstCall, stampVars, fetched, clock, currentJSON, lastFetchTime, partialCount,
                   renderSuspended, renderLocals, renderHistory>>

\* lines 130 and 135-138: rawJSON is exhausted and the fetch time is written
U135 ==
    /\ upc = "L130"
    /\ ~LoopRaises
    /\ uIdx > Len(rawJSON.items)
    /\ lastFetchTime' = TimeVal(clock)
    /\ stampCurrent' = TRUE
    /\ stampOfRead' = readCurrent
    /\ UNCHANGED readCurrent
    /\ UpdateEnds("ok")
    /\ UNCHANGED <<piVars, firstCall, fetched, clock, currentJSON, partialCount, renderSuspended,
                   renderLocals, renderHistory>>

-----------------------------------------------------------------------------
(* renderBusInfo with getTimes, lines 140-225 *)

\* the execution of renderBusInfo ends; result is what getTimes gave it
RenderEnds(outcome, result) ==
    /\ rpc' = "idle"
    /\ seen' = "none"
    /\ now' = 0
    /\ iterList' = << >>
    /\ iterAlias' = FALSE
    /\ rIdx' = 0
    /\ times' = None
    /\ readCurrent' = FALSE
    /\ stampOfRead' = FALSE
    /\ UNCHANGED stampCurrent
    /\ curResult' = result
    /\ JobDone(RENDER, outcome)

\* line 168: with no panel, self.panel.size raises AttributeError
RenderNoPanel ==
    /\ rpc = "L168"
    /\ panel = "None"
    /\ RenderEnds("error", "raise")
    /\ runLog' = << >>
    /\ UNCHANGED <<piVars, firstCall, fetched, clock, currentJSON, lastFetchTime, partialCount,
                   renderSuspended, updateLocals, panelCalls>>

\* what the test at line 142 can observe
Observed(json) ==
    IF IsNone(json) THEN "absent" ELSE IF json.items = << >> THEN "empty" ELSE "data"

\* three placeholders returned for a snapshot that is None or empty
NoDataPlaceholders == List(<<Placeholder, Placeholder, Placeholder>>)

\* line 143: the value returned for a snapshot that is None or empty
NoData == None

\* lines 168-181 and 142-145: the frame is drawn on the image and getTimes
\* tests the snapshot
GT142 ==
    /\ rpc = "L168"
    /\ panel # "None"
    /\ seen' = Observed(currentJSON)
    /\ IF Falsy(currentJSON)
       THEN /\ times' = NoData
            /\ rpc' = "L182"
       ELSE /\ times' = List(<< >>)
            /\ rpc' = "L147"
    /\ UNCHANGED <<piVars, firstCall, stampVars, schedVars, fetched, clock, currentJSON, lastFetchTime,
                   partialCount, renderSuspended, updateLocals, now, iterList,
                   iterAlias, rIdx, renderHistory>>

\* lines 147-148: now is sampled; self.currentJSON is read again and iter() is
\* taken of it; None is not iterable and the TypeError leaves getTimes and
\* renderBusInfo
GT148 ==
    /\ rpc = "L147"
    /\ IF IsNone(currentJSON)
       THEN /\ RenderEnds("error", "raise")
            /\ runLog' = << >>
       ELSE /\ now' = clock
            /\ iterList' = currentJSON.items
            /\ iterAlias' = TRUE
            /\ readCurrent' = TRUE
            /\ stampOfRead' = stampCurrent
            /\ UNCHANGED stampCurrent
            /\ rIdx' = 1
            /\ rpc' = "L149"
            /\ UNCHANGED <<schedVars, seen, times, curResult, runLog>>
    /\ UNCHANGED <<piVars, firstCall, fetched, clock, currentJSON, lastFetchTime, partialCount,
                   renderSuspended, updateLocals, panelCalls>>

\* the time from which line 150 measures
LoopNow == now

\* lines 148-152: the list iterator yields the next bus
GT149 ==
    /\ rpc = "L149"
    /\ rIdx <= Len(iterList)
    /\ times' = List(Append(times.items, DueString(iterList[rIdx], LoopNow)))
    /\ rIdx' = rIdx + 1
    /\ UNCHANGED <<piVars, firstCall, stampVars, schedVars, fetched, clock, currentJSON, lastFetchTime,
                   partialCount, renderSuspended, updateLocals, rpc, seen, now,
                   iterList, iterAlias, renderHistory>>

\* a getTimes that keeps the three soonest by cutting the snapshot itself
GT154Truncates ==
    /\ rpc = "L149"
    /\ rIdx > Len(iterList)
    /\ times' = List(Finish(times.items))
    /\ currentJSON' = IF IsNone(currentJSON) \/ Len(currentJSON.items) <= 3
                       THEN currentJSON
                       ELSE List(SubSeq(currentJSON.items, 1, 3))
    /\ iterAlias' = FALSE
    /\ rpc' = "L182"
    /\ UNCHANGED <<piVars, firstCall, stampVars, schedVars, fetched, clock, lastFetchTime,
                   partialCount, renderSuspended, updateLocals, seen, now, iterList,
                   rIdx, renderHistory>>

\* lines 148 and 154-163: the list iterator is exhausted; sort, pad, return
GT154 ==
    /\ rpc = "L149"
    /\ rIdx > Len(iterList)
    /\ times' = List(Finish(times.items))
    /\ iterAlias' = FALSE
    /\ rpc' = "L182"
    /\ UNCHANGED <<piVars, firstCall, stampVars, schedVars, fetched, clock, currentJSON, lastFetchTime,
                   partialCount, renderSuspended, updateLocals, seen, now, iterList,
                   rIdx, renderHistory>>

\* a presenter that redraws the placeholder on every tick without data
RenderBranchNoSuspend(t, suspended) == IF Falsy(t) THEN "nodata" ELSE "data"

\* a test at line 182 that redraws the placeholder only while suspended
RenderBranchInverted(t, suspended) ==
    IF Falsy(t) /\ suspended THEN "nodata"
    ELSE IF Falsy(t) THEN "skip"
    ELSE "data"

\* lines 182, 192, 194: the branch renderBusInfo takes
RenderBranch(t, suspended) ==
    IF Falsy(t) /\ ~suspended THEN "nodata"
    ELSE IF Falsy(t) THEN "skip"
    ELSE "data"

\* a full refresh forced one partial refresh late
NeedFullRefreshLate(count) == count > FullRefreshEvery

\* line 220
NeedFullRefresh(count) == count >= FullRefreshEvery

\* lines 183-191: the placeholder is drawn with a full refresh
RenderNoData ==
    /\ rpc = "L182"
    /\ RenderBranch(times, renderSuspended) = "nodata"
    /\ panelCalls' = panelCalls \o <<"display", "update">>
    /\ renderSuspended' = TRUE
    /\ runLog' = << >>
    /\ RenderEnds("ok", "nodata")
    /\ UNCHANGED <<piVars, firstCall, fetched, clock, currentJSON, lastFetchTime, partialCount,
                   updateLocals>>

\* line 193
RenderSkip ==
    /\ rpc = "L182"
    /\ RenderBranch(times, renderSuspended) = "skip"
    /\ runLog' = << >>
    /\ RenderEnds("ok", "nodata")
    /\ UNCHANGED <<piVars, firstCall, fetched, clock, currentJSON, lastFetchTime, partialCount,
                   renderSuspended, updateLocals, panelCalls>>

\* lines 195-225: times[0], times[1], times[2] and lastFetchTime are drawn
RenderData ==
    /\ rpc = "L182"
    /\ RenderBranch(times, renderSuspended) = "data"
    /\ renderSuspended' = FALSE
    /\ LET kind == IF NeedFullRefresh(partialCount) THEN "update" ELSE "partial_update"
       IN  /\ panelCalls' = panelCalls \o <<"display", kind>>
           /\ partialCount' = IF NeedFullRefresh(partialCount) THEN 0 ELSE partialCount + 1
           /\ runLog' = IF runLog # << >> \/ partialCount = 0
                        THEN Append(runLog, kind) ELSE runLog
    /\ RenderEnds("ok", "data")
    /\ UNCHANGED <<piVars, firstCall, fetched, clock, currentJSON, lastFetchTime, updateLocals>>

-----------------------------------------------------------------------------
(* The specifications *)

Next ==
    \/ TickUpdate
    \/ TickRender
    \/ \E j \in {UPDATE, RENDER} : TickSkip(j)
    \/ ClockAdvance
    \/ FetchTransportError
    \/ FetchUnparsable
    \/ \E body \in Bodies : FetchBody(body)
    \/ U126
    \/ U130Item
    \/ U130Raise
    \/ U135
    \/ RenderNoPanel
    \/ GT142
    \/ GT148
    \/ GT149
    \/ GT154
    \/ RenderNoData
    \/ RenderSkip
    \/ RenderData

\* the whole program: both jobs under the scheduler
Spec == Init /\ [][Next]_vars

\* getTimes called by a render execution on a snapshot that nothing writes
\* meanwhile
InitCalc ==
    /\ options = [busStopID |-> StopID, busLine |-> Route]
    /\ process = "running"
    /\ panel = "EPD"
    /\ jobs = {UPDATE, RENDER}
    /\ instances = [j \in {UPDATE, RENDER} |-> IF j = RENDER THEN 1 ELSE 0]
    /\ skips = {}
    /\ lastOutcome = [j \in {UPDATE, RENDER} |-> IF j = RENDER THEN "never" ELSE "ok"]
    /\ clock \in ClockValues
    /\ currentJSON \in Snapshots
    /\ fetched = IF IsNone(currentJSON) THEN "failure" ELSE "success"
    /\ lastFetchTime = IF IsNone(currentJSON) THEN IntVal(-1) ELSE TimeVal(0)
    /\ partialCount = 0
    /\ renderSuspended = FALSE
    /\ upc = "idle" /\ rawJSON = None /\ uIdx = 0
    /\ rpc = "L168" /\ seen = "none" /\ now = 0
    /\ iterList = << >> /\ iterAlias = FALSE /\ rIdx = 0 /\ times = None
    /\ panelCalls = << >> /\ curResult = "none" /\ runLog = << >>
    /\ firstCall = None
    /\ stampCurrent = TRUE /\ readCurrent = FALSE /\ stampOfRead = FALSE

\* line 181 again: getTimes has returned and is called once more on the same
\* snapshot; what the first call returned, and its now, are kept for comparison
CallAgain ==
    /\ rpc = "L182"
    /\ IsNone(firstCall)
    /\ firstCall' = [tag |-> "call", times |-> times, now |-> now]
    /\ rpc' = "L168"
    /\ seen' = "none"
    /\ now' = 0
    /\ iterList' = << >>
    /\ iterAlias' = FALSE
    /\ rIdx' = 0
    /\ times' = None
    /\ readCurrent' = FALSE
    /\ stampOfRead' = FALSE
    /\ UNCHANGED stampCurrent
    /\ UNCHANGED <<piVars, schedVars, fetched, clock, currentJSON, lastFetchTime,
                   partialCount, renderSuspended, updateLocals, renderHistory>>

NextCalc ==
    \/ ClockAdvance
    \/ CallAgain
    \/ GT142
    \/ GT148
    \/ GT149
    \/ GT154

SpecCalc == InitCalc /\ [][NextCalc]_vars

-----------------------------------------------------------------------------
(* Properties *)

IsDigit(c) == c \in Zero .. (Zero + 9)

\* a two-character string of digits: a zero-padded non-negative integer
TwoDigits(e) == Len(e) = 2 /\ \A i \in DOMAIN e : IsDigit(e[i])

\* the number a string of digits denotes
RECURSIVE ParseInt(_)
ParseInt(e) ==
    IF e = << >> THEN 0
    ELSE ParseInt(SubSeq(e, 1, Len(e) - 1)) * 10 + (e[Len(e)] - Zero)

\* how often x occurs in the sequence q
CountIn(q, x) == Cardinality({ i \in DOMAIN q : q[i] = x })

\* getTimes has returned to renderBusInfo
Returned == process = "running" /\ rpc = "L182"

\* C1: for every non-absent snapshot getTimes returns exactly 3 entries, each a
\* two-character zero-padded non-negative integer string or the placeholder.
C1_ExactlyThreeTwoCharEntries ==
    (Returned /\ seen = "data") =>
        /\ ~IsNone(times)
        /\ Len(times.items) = 3
        /\ \A i \in DOMAIN times.items :
               TwoDigits(times.items[i]) \/ times.items[i] = Placeholder

\* C2: the non-placeholder entries getTimes returns are in ascending order of
\* their numeric value, and every placeholder comes after every real value.
C2_AscendingByNumericValue ==
    (Returned /\ seen = "data") =>
        \A i, j \in DOMAIN times.items :
            i < j =>
                /\ times.items[i] = Placeholder => times.items[j] = Placeholder
                /\ (times.items[i] # Placeholder /\ times.items[j] # Placeholder)
                       => ParseInt(times.items[i]) <= ParseInt(times.items[j])

\* the minutes the claim prescribes for a bus: the floor of the seconds left
\* over 60, and 0 for a bus whose expected time is in the past
ExpectedMinutes(bus, t) ==
    IF bus.expectedArrival < t THEN 0 ELSE (bus.expectedArrival - t) \div 60

\* C3: for every record of the snapshot getTimes emits
\* floor((expectedArrival - now) / 60) clamped below at 0, now being the one
\* sample of the call; a past arrival gives "00", never a negative number; one
\* arrival due in 90 s gives ["01", "--", "--"].
C3_MinutesFloorClampedAtZero ==
    (Returned /\ seen = "data") =>
        LET real == SelectSeq(times.items, LAMBDA e : e # Placeholder)
            recs == currentJSON.items
        IN  /\ Len(real) = Len(recs)
            /\ \A i \in DOMAIN real : \A k \in DOMAIN real[i] : IsDigit(real[i][k])
            /\ \A r \in DOMAIN recs :
                   LET m == ExpectedMinutes(recs[r], now)
                   IN  CountIn([i \in DOMAIN real |-> ParseInt(real[i])], m)
                         = CountIn([i \in DOMAIN recs |-> ExpectedMinutes(recs[i], now)], m)
            /\ (recs = <<Record("N38", 130)>> /\ now = 40)
                   => times.items = <<<<Zero, Zero + 1>>, Placeholder, Placeholder>>

\* C3 witness: getTimes has returned "00" for an arrival in the past and "01"
\* for one due in 90 s
C3_Witness ==
    /\ Returned /\ seen = "data"
    /\ currentJSON.items = <<Record("N38", 130), Record("N38", 30)>>
    /\ now = 40
    /\ times.items = <<<<Zero, Zero>>, <<Zero, Zero + 1>>, Placeholder>>

\* C4: when the snapshot is absent getTimes returns None, never a sequence of
\* three placeholders.
C4_AbsentGivesNone ==
    (Returned /\ seen = "absent") => IsNone(times)

\* C4 witness: getTimes has returned on the snapshot a failed fetch left
C4_Witness ==
    /\ Returned /\ seen = "absent"
    /\ fetched = "failure" /\ lastOutcome[UPDATE] = "ok" /\ upc = "idle"
    /\ IsNone(currentJSON)

\* C5: no two executions of the same task are ever in flight; a tick that
\* arrives while an execution runs is skipped and starts nothing; the other
\* task is unaffected.
C5_NoOverlappingExecutions ==
    process = "running" =>
        \A j \in {UPDATE, RENDER} :
            /\ instances[j] <= 1
            /\ j \in skips => instances[j] = 1

\* C5 witness: a tick of the fetch task was skipped while its execution runs,
\* and the render task runs meanwhile
C5_Witness ==
    /\ process = "running"
    /\ UPDATE \in skips /\ upc = "L110"
    /\ instances[RENDER] = 1 /\ rpc = "L182"

\* a step that ends an execution of renderBusInfo
RenderFinishes == rpc # "idle" /\ rpc' = "idle"

\* C6: on the render tick where the calculator result changes from real data to
\* no-data the presenter makes exactly one full redraw (display, update); on
\* each following render tick while no-data persists it makes no call at all.
C6_OneRedrawOnLosingData ==
    [][ (RenderFinishes /\ curResult' = "nodata") =>
            /\ curResult = "data" => panelCalls' = <<"display", "update">>
            /\ curResult = "nodata" => panelCalls' = << >> ]_vars

\* C6 witness: data had been drawn, and the latest render tick without data
\* made no call on the panel
C6_Witness ==
    /\ process = "running" /\ rpc = "idle"
    /\ curResult = "nodata" /\ panelCalls = << >>
    /\ renderSuspended = TRUE /\ partialCount > 0

\* C7: from a counter of zero, of consecutive render ticks with data the 1st to
\* the 10th use partial_update and the 11th uses update and resets the
\* counter; then the pattern repeats.
C7_FullRefreshEveryEleventh ==
    (process = "running" /\ runLog # << >>) =>
        /\ \A i \in DOMAIN runLog :
               runLog[i] = IF i % 11 = 0 THEN "update" ELSE "partial_update"
        /\ partialCount = Len(runLog) % 11

\* C7 witness: the 11th consecutive render with data has made a full refresh
C7_Witness ==
    /\ process = "running"
    /\ Len(runLog) = 11 /\ runLog[11] = "update" /\ partialCount = 0

\* C8: after every kind of failed fetch, fetchBusJSON has not raised and the
\* snapshot is absent when updateBusInfo has finished.
C8_FailedFetchClearsSnapshot ==
    (process = "running" /\ upc = "idle" /\ fetched = "failure") =>
        /\ lastOutcome[UPDATE] = "ok"
        /\ IsNone(currentJSON)

\* C9: with no panel every render tick completes without error.
C9_NoPanelRendersToConsole ==
    (process = "running" /\ panel = "None") => lastOutcome[RENDER] # "error"

\* C10: an execution that raises never stops its task from being scheduled: the
\* job stays registered and free to run on its next tick, as does the other.
C10_FailedTaskStaysScheduled ==
    process = "running" =>
        \A j \in {UPDATE, RENDER} :
            lastOutcome[j] = "error" =>
                /\ jobs = {UPDATE, RENDER}
                /\ (IF j = UPDATE THEN upc ELSE rpc) = "idle" => CanSubmit(j)

\* C10 witness: the fetch task runs again after an execution of it raised, the
\* render task having raised as well
C10_Witness ==
    /\ process = "running"
    /\ lastOutcome[UPDATE] = "error" /\ upc = "L110"
    /\ lastOutcome[RENDER] = "error" /\ rpc = "L147"

-----------------------------------------------------------------------------
(* Startup without a stop or a route, lines 68-70 *)

\* C11: when the stop id or the route is missing, the process has exited with
\* code 1, no job is registered, and no fetch or render execution has started,
\* run or finished; when both are given the process runs with both jobs
C11_MissingOptionExitsBeforeJobs ==
    IF IsNone(options.busStopID) \/ IsNone(options.busLine)
    THEN /\ process = "exit1"
         /\ jobs = {}
         /\ \A j \in {UPDATE, RENDER} : instances[j] = 0 /\ lastOutcome[j] = "never"
         /\ upc = "idle" /\ rpc = "idle"
         /\ fetched = "none" /\ curResult = "none" /\ panelCalls = << >>
         /\ IsNone(currentJSON) /\ IsNone(lastFetchTime)
    ELSE process = "running" /\ jobs = {UPDATE, RENDER}

\* the process started with a stop and no route
C11_Witness ==
    /\ ~IsNone(options.busStopID)
    /\ IsNone(options.busLine)
    /\ process = "exit1"
    /\ jobs = {}

-----------------------------------------------------------------------------
(* getTimes called twice, lines 140-163 *)

\* a step of getTimes: the test of line 142, the read of line 148, a turn of
\* the loop, or the sort, pad and return
GetTimesStep ==
    /\ rpc \in {"L168", "L147", "L149"}
    /\ rpc' # rpc \/ rIdx' # rIdx

\* C12: a second call of getTimes on the same snapshot with the same now
\* returns what the first call returned, and no step of getTimes changes the
\* snapshot, the fetch time, the render state, the options or the panel
C12_SameOutputAndNoEffect ==
    /\ []((Returned /\ ~IsNone(firstCall) /\ firstCall.now = now)
            => times = firstCall.times)
    /\ [][GetTimesStep =>
            UNCHANGED <<currentJSON, lastFetchTime, partialCount, renderSuspended,
                        options, panel, process, jobs>>]_vars

\* both calls have returned the same list for a snapshot of four records
C12_Witness ==
    /\ Returned
    /\ ~IsNone(firstCall)
    /\ firstCall.now = now
    /\ ~IsNone(currentJSON)
    /\ Len(currentJSON.items) = 4
    /\ ~IsNone(times)
    /\ times = firstCall.times

-----------------------------------------------------------------------------
(* The snapshot under concurrent fetch and render, lines 124-138 and 142-216 *)

\* the entries of a payload that are of the configured route, compared without
\* regard to case, in the payload's order
FilterRoute(items) ==
    SelectSeq(items, LAMBDA b : Lower(b.lineName) = Lower(options.busLine.s))

\* C13: a render execution never holds a half-written snapshot: whenever the
\* list object its loop iterates is the one updateBusInfo is still filling from
\* a well-formed payload, that list already is the complete filtered snapshot
C13_RenderSeesWholeSnapshots ==
    (/\ process = "running"
     /\ rpc = "L149"
     /\ iterAlias
     /\ upc = "L130"
     /\ WellShaped(rawJSON))
        => currentJSON.items = FilterRoute(rawJSON.items)

\* C14: on every step where renderBusInfo draws due times, the lastFetchTime it
\* draws at line 215 was written by the fetch execution that installed the
\* list whose records it draws
C14_DrawnTimeIsOfDrawnRecords ==
    [][(rpc = "L182" /\ rpc' = "idle" /\ curResult' = "data") => stampOfRead]_vars

-----------------------------------------------------------------------------
(* lastFetchTime over the fetch attempts, lines 120-138 *)

\* the step on which an execution of updateBusInfo ends
UpdateFinishes == upc # "idle" /\ upc' = "idle"

\* the execution that ends on this step returns True (line 138)
UpdateSucceeds == upc = "L130" /\ lastOutcome'[UPDATE] = "ok"

\* C15: lastFetchTime starts absent; a fetch attempt that succeeds sets it to
\* the wall-clock time of that attempt and an attempt that fails leaves it as
\* it was, so it always is the time of the latest successful fetch
C15_FetchTimeIsLastSuccess ==
    [][UpdateFinishes =>
         IF UpdateSucceeds
         THEN lastFetchTime' = TimeVal(clock)
         ELSE lastFetchTime' = lastFetchTime]_vars

-----------------------------------------------------------------------------
(* The refresh counter and the suspension flag, lines 182-225 *)

\* C16: partialCount is the number of partial refreshes made since the panel's
\* latest full refresh, whichever branch made it. Where the latest render
\* execution made a full refresh, no partial refresh has been made since, so
\* the counter is 0
C16_CountIsPartialsSinceFullRefresh ==
    (process = "running" /\ panelCalls = <<"display", "update">>)
        => partialCount = 0

-----------------------------------------------------------------------------
(* The filter of updateBusInfo, lines 129-138 *)

\* C17: on the step where updateBusInfo returns True, the snapshot it leaves
\* is exactly the entries of the payload whose lineName is the configured
\* route without regard to case, in the payload's order
C17_SnapshotIsFilteredPayload ==
    [][(UpdateFinishes /\ UpdateSucceeds)
          => currentJSON' = List(FilterRoute(rawJSON.items))]_vars

\* a fetch of the payload [n38, 73, N38] has returned True and the snapshot
\* holds the first and the third entry
C17_Witness ==
    /\ process = "running"
    /\ upc = "idle"
    /\ lastOutcome[UPDATE] = "ok"
    /\ fetched = "success"
    /\ currentJSON = List(<<Record("n38", 130), Record("N38", 30)>>)
    /\ lastFetchTime = TimeVal(clock)

-----------------------------------------------------------------------------
(* A fetch without an entry of the route, lines 129-161 and 181-193 *)

\* C18: an empty snapshot is rendered as no data: when getTimes has returned,
\* it has returned None if its test at line 142 saw an empty list, and it has
\* in no case returned three placeholders
C18_ZeroMatchesIsNoData ==
    Returned =>
        /\ seen = "empty" => IsNone(times)
        /\ times # List(<<Placeholder, Placeholder, Placeholder>>)

-----------------------------------------------------------------------------
(* Who writes what, lines 120-225 *)

\* a step of a renderBusInfo execution, getTimes included
RenderStep == rpc # "idle" /\ (rpc' # rpc \/ rIdx' # rIdx)

\* a step of an updateBusInfo execution
UpdateStep == upc # "idle" /\ (upc' # upc \/ uIdx' # uIdx)

\* C19: no step of renderBusInfo or getTimes changes currentJSON, a record in
\* it, or lastFetchTime, and no step of updateBusInfo changes partialCount or
\* renderSuspended
C19_EachTaskWritesItsOwnState ==
    [][/\ RenderStep => UNCHANGED <<currentJSON, lastFetchTime>>
       /\ UpdateStep => UNCHANGED <<partialCount, renderSuspended>>]_vars

\* both tasks have run to the end: a fetch has installed data and its time,
\* and the second render with data has made its partial refresh
C19_Witness ==
    /\ process = "running"
    /\ upc = "idle" /\ rpc = "idle"
    /\ lastOutcome[UPDATE] = "ok"
    /\ Observed(currentJSON) = "data"
    /\ lastFetchTime = TimeVal(clock)
    /\ curResult = "data"
    /\ partialCount = 2
    /\ renderSuspended = FALSE

\* C20: after a render execution that returned, renderSuspended is true
\* exactly when getTimes gave that execution no data; the first render
\* execution, when it gets no data, draws the placeholder with a full refresh;
\* and an execution that gets data while the flag is set draws and clears it
C20_SuspendedIffNoData ==
    /\ []((process = "running" /\ curResult \in {"data", "nodata"})
            => (renderSuspended <=> curResult = "nodata"))
    /\ [][(RenderFinishes /\ curResult = "none" /\ curResult' = "nodata")
            => (panelCalls' = <<"display", "update">> /\ renderSuspended')]_vars
    /\ [][(RenderFinishes /\ renderSuspended /\ curResult' = "data")
            => /\ panelCalls' \in {<<"display", "update">>, <<"display", "partial_update">>}
               /\ ~renderSuspended']_vars

\* the first render execution ran before any fetch: it has drawn the
\* placeholder with a full refresh and set the flag
C20_Witness ==
    /\ process = "running"
    /\ upc = "idle" /\ lastOutcome[UPDATE] = "never"
    /\ rpc = "idle" /\ lastOutcome[RENDER] = "ok"
    /\ curResult = "nodata"
    /\ panelCalls = <<"display", "update">>
    /\ renderSuspended = TRUE
    /\ partialCount = 0

====
